---- MODULE Spec2Model ----
(***************************************************************************)
(* Progress estimation of the sync client: OCC::ProgressInfo and its       *)
(* nested rate estimator ProgressInfo::Progress                            *)
(* (src/src/libsync/progressdispatcher.cpp), and the cached state of a     *)
(* link share, OCC::Share and OCC::LinkShare (src/src/gui/share.cpp).      *)
(*                                                                         *)
(* Numbers.  The quint64 counters (_total, _completed, _prevCompleted,     *)
(* _totalSizeOfCompletedJobs) are integers; the model's bounds keep them   *)
(* far below 2^64, so no counter wraps.  A value that can pass 2^31, an    *)
(* eta or the digits of a double, is a long number: the sequence of its    *)
(* digits to the base Limb, lowest digit first.  The double members        *)
(* (_progressPerSec, _initialSmoothing, _maxFilesPerSecond,                *)
(* _maxBytesPerSecond) and every double the code computes are IEEE 754     *)
(* binary64 numbers that are not negative: m * 2^x with at most 53 binary  *)
(* digits m, and every sum, difference, product and quotient is rounded    *)
(* to the nearest such number, to the even one of two equally near, as the *)
(* processor rounds it.  An infinity or a not-a-number arises only from a  *)
(* division by a rate of zero and is followed by cases, not held as a      *)
(* value.  A conversion of a double to quint64 leaves its whole part; for  *)
(* an infinity, a not-a-number or a double of 2^64 or more C++ leaves the  *)
(* result undefined, and the model takes any of the values the conversion  *)
(* instructions yield.  A double of 2^1024 or more, an infinity to the     *)
(* processor, arises only as an eta about to be converted; the model keeps *)
(* the number, and the conversion is undefined either way.  Not modelled:  *)
(* a compiler that contracts a product and a sum into one fused operation. *)
(***************************************************************************)
EXTENDS Integers, FiniteSets, Sequences, TLC

\* ------------------------------------------------------------------ bounds

\* adjustTotalsForFile is not called once _fileProgress._total reached this.
MaxTotalFiles == 2
\* updateEstimates is called at most this many times (one call per second).
MaxTicks == 2
\* setProgressComplete is not called for a size-dependent item once
\* _totalSizeOfCompletedJobs reached this.
MaxCompletedJobsSize == 3
\* In the runs that stall, updateEstimates is called at most this many
\* times.
MaxStallTicks == 4
\* Neither a setter of a share nor deleteShare is called while this many
\* of its jobs are pending.
MaxPendingJobs == 2
\* In the runs that go on long after the last report, updateEstimates is
\* called at most this many times.
MaxLongTicks == 107
\* In the runs over many entries, adjustTotalsForFile is not called once
\* _fileProgress._total reached this.
MaxBulkEntries == 630
\* In the runs over many entries, updateEstimates is called at most this
\* many times.
MaxBulkTicks == 2

\* --------------------------------------------------------- number formats

\* the base of the digits of a long number, 2^15
Limb == 32768

\* the highest place of the digit sequence a that holds a digit other
\* than 0; 0 when there is none
HighestDigit(a) ==
    IF Len(a) > 0 /\ a[Len(a)] # 0 THEN Len(a)
    ELSE LET used == {i \in 1..Len(a) : a[i] # 0}
         IN  IF used = {} THEN 0
             ELSE CHOOSE i \in used : \A j \in used : j <= i

\* a digit sequence without its highest digits 0
BigTrim(a) == SubSeq(a, 1, HighestDigit(a))

\* the natural number n < 2^31 as a long number: its digits to the base
\* Limb, lowest first, without a highest digit 0 (zero is the empty sequence)
BigOf(n) ==
    BigTrim(<<n % Limb, (n \div Limb) % Limb, n \div (Limb * Limb)>>)

\* a * Limb^k
BigShift(a, k) == IF a = <<>> THEN <<>> ELSE [i \in 1..k |-> 0] \o a

RECURSIVE BigAddCarry(_, _, _)
\* a + b + c for a carry c of 0 or 1
BigAddCarry(a, b, c) ==
    IF b = <<>> /\ c = 0 THEN a
    ELSE IF a = <<>> /\ c = 0 THEN b
    ELSE LET x == IF a = <<>> THEN 0 ELSE Head(a)
             y == IF b = <<>> THEN 0 ELSE Head(b)
             t == x + y + c
         IN  <<t % Limb>>
             \o BigAddCarry(IF a = <<>> THEN a ELSE Tail(a),
                            IF b = <<>> THEN b ELSE Tail(b), t \div Limb)

\* a + b
BigAdd(a, b) == BigAddCarry(a, b, 0)

RECURSIVE BigSubBorrow(_, _, _)
\* a - b - c for a >= b + c and a borrow c of 0 or 1; the highest digits
\* may come out 0
BigSubBorrow(a, b, c) ==
    IF b = <<>> /\ c = 0 THEN a
    ELSE LET y == IF b = <<>> THEN 0 ELSE Head(b)
             t == Head(a) - y - c
         IN  <<t % Limb>>
             \o BigSubBorrow(Tail(a), IF b = <<>> THEN b ELSE Tail(b),
                             IF t < 0 THEN 1 ELSE 0)

\* a - b for a >= b
BigSub(a, b) == BigTrim(BigSubBorrow(a, b, 0))

RECURSIVE BigMulLimbCarry(_, _, _)
\* a * k + c for one digit k and a carry c < Limb
BigMulLimbCarry(a, k, c) ==
    IF a = <<>> THEN (IF c = 0 THEN <<>> ELSE <<c>>)
    ELSE LET t == Head(a) * k + c
         IN  <<t % Limb>> \o BigMulLimbCarry(Tail(a), k, t \div Limb)

\* a * k for one digit k
BigMulLimb(a, k) == IF k = 0 THEN <<>> ELSE BigMulLimbCarry(a, k, 0)

RECURSIVE BigMul(_, _)
\* a * b
BigMul(a, b) ==
    IF a = <<>> \/ b = <<>> THEN <<>>
    ELSE BigAdd(BigMulLimb(a, Head(b)), BigShift(BigMul(a, Tail(b)), 1))

\* a < b
BigLess(a, b) ==
    IF Len(a) # Len(b) THEN Len(a) < Len(b)
    ELSE \E i \in 1..Len(a) :
             a[i] < b[i] /\ \A j \in (i + 1)..Len(a) : a[j] = b[j]

\* a <= b
BigLeq(a, b) == ~BigLess(b, a)

\* floor(r / b) for r < b * Limb, where the highest digit of b is at least
\* Limb / 2: the quotient q of the leading digits, or Limb - 1 if that is
\* less, is at most 2 too large
QuotientLimb(r, b) ==
    IF Len(r) < Len(b) THEN 0
    ELSE LET n == Len(b)
             Fit(q) ==
                 IF BigLeq(BigMulLimb(b, q), r) THEN q
                 ELSE IF BigLeq(BigMulLimb(b, q - 1), r) THEN q - 1
                 ELSE q - 2
             AtMost(q, max) == IF q < max THEN q ELSE max
         IN  Fit(AtMost(((IF Len(r) > n THEN r[n + 1] * Limb ELSE 0) + r[n])
                           \div b[n],
                        Limb - 1))

RECURSIVE BigDivFrom(_, _, _, _)
\* the digits number i and lower of floor(a / b), highest first, where r is
\* what is left of the digits of a above digit i: digit q is the quotient
\* of r1, which is r with digit i of a below it
BigDivFrom(a, b, i, r) ==
    IF i = 0 THEN <<>>
    ELSE LET Digit(r1, q) ==
                 <<q>> \o BigDivFrom(a, b, i - 1, BigSub(r1, BigMulLimb(b, q)))
             Step(r1) == Digit(r1, QuotientLimb(r1, b))
         IN  Step(BigTrim(<<a[i]>> \o r))

\* floor(a / b) for b > 0.  Both are scaled first, to an and bn, so that
\* the highest digit of the divisor is at least Limb / 2; the division
\* starts at the first digit of an where a quotient digit can be other
\* than 0, and its digits q, highest first, are put lowest first.
BigDiv(a, b) ==
    LET f == Limb \div (b[Len(b)] + 1)
        Reversed(q) == BigTrim([i \in 1..Len(q) |-> q[Len(q) + 1 - i]])
        From(an, bn, first) ==
            IF first < 1 THEN <<>>
            ELSE Reversed(BigDivFrom(an, bn, first,
                                     SubSeq(an, first + 1, Len(an))))
        Scaled(an, bn) == From(an, bn, Len(an) - Len(bn) + 1)
    IN  Scaled(BigMulLimb(a, f), BigMulLimb(b, f))

\* the number of binary digits of a: a digit to the base Limb has 15
BitLen(a) ==
    IF a = <<>> THEN 0
    ELSE 15 * (Len(a) - 1)
         + (CHOOSE n \in 1..15 : 2^(n - 1) <= a[Len(a)] /\ a[Len(a)] < 2^n)

\* a * 2^n: every digit takes the high binary digits of the digit below
ShiftLeft(a, n) ==
    LET f == 2^(n % 15)
    IN  BigShift(BigTrim([i \in 1..(Len(a) + 1) |->
                            (IF i <= Len(a) THEN (a[i] * f) % Limb ELSE 0)
                            + (IF i > 1 THEN (a[i - 1] * f) \div Limb ELSE 0)]),
                 n \div 15)

\* floor(a / 2^n): every digit takes the low binary digits of the digit
\* above
ShiftRight(a, n) ==
    LET f == 2^(n % 15)
        Digits(b) ==
            BigTrim([i \in 1..Len(b) |->
                        b[i] \div f
                        + (IF i < Len(b) THEN (b[i + 1] % f) * (Limb \div f)
                           ELSE 0)])
    IN  Digits(SubSeq(a, n \div 15 + 1, Len(a)))

\* the exponent of the smallest double above 0, 2^-1074
MinExponent == -1074

\* The double m * 2^x for a long number m of at most 53 binary digits, or
\* of 54 of which the lowest is 0: the record of m and x, and the record
\* of <<>> and 0 for zero.  A double has one such record: rounding leaves
\* 53 digits except below 2^-1022, where x is MinExponent.
Double(m, x) ==
    IF m = <<>> THEN [m |-> <<>>, x |-> 0]
    ELSE IF BitLen(m) > 53 THEN [m |-> ShiftRight(m, 1), x |-> x + 1]
    ELSE [m |-> m, x |-> x]

\* the double 0.0
Zero == Double(<<>>, 0)

\* The double nearest to (m + rest / den) * 2^x for a whole part m and a
\* rest below den: m, or m + 1 when the rest is above half of den, or is
\* half of it and m is odd
Nearest(m, rest, den, x) ==
    LET odd == m # <<>> /\ m[1] % 2 = 1
        Up(twice) == IF odd THEN BigLeq(den, twice) ELSE BigLess(den, twice)
    IN  Double(IF Up(ShiftLeft(rest, 1)) THEN BigAdd(m, <<1>>) ELSE m, x)

\* binary digit number i of n, the lowest being number 0
Bit(n, i) ==
    IF i \div 15 + 1 > Len(n) THEN 0
    ELSE (n[i \div 15 + 1] \div 2^(i % 15)) % 2

\* n has a binary digit 1 below digit number i
AnyBelow(n, i) ==
    \/ \E j \in 1..(i \div 15) : j <= Len(n) /\ n[j] # 0
    \/ i \div 15 + 1 <= Len(n) /\ n[i \div 15 + 1] % 2^(i % 15) # 0

\* The double nearest to n * 2^e for a long number n, the even one of two
\* equally near: what the processor leaves of a sum, a difference or a
\* product.  k0 is the number of binary digits that n has above 53, k the
\* number that are cut off, more below 2^-1022, and m what is left.  m
\* becomes m + 1 when the digits cut off are above half of the last digit
\* of m, or are half of it and m is odd.
RoundWhole(n, e) ==
    LET Cut(k0, k) ==
            LET up == /\ Bit(n, k - 1) = 1
                      /\ (AnyBelow(n, k - 1) \/ Bit(n, k) = 1)
                Rounded(m) == Double(IF up THEN BigAdd(m, <<1>>) ELSE m, k + e)
            IN  IF k - k0 > 54 THEN Zero
                ELSE IF k <= 0 THEN Double(ShiftLeft(n, -k), k + e)
                ELSE Rounded(ShiftRight(n, k))
        At(k0) ==
            Cut(k0, IF k0 + e < MinExponent THEN MinExponent - e ELSE k0)
    IN  IF n = <<>> THEN Zero ELSE At(BitLen(n) - 53)

\* The double nearest to p / q * 2^e for long numbers p and q > 0, the
\* even one of two equally near: what the processor leaves of a quotient.
\* p / q is at least 2^d or below it, k0 is the exponent that leaves the
\* quotient m of num and den 53 digits, and k is k0, or more below
\* 2^-1022.  A result below a quarter of 2^-1074 is zero.
Round(p, q, e) ==
    LET Quotient(num, den, x) ==
            LET Rest(m) == Nearest(m, BigSub(num, BigMul(m, den)), den, x)
            IN  Rest(BigDiv(num, den))
        Cut(k0, k) ==
            IF k - k0 > 54 THEN Zero
            ELSE Quotient(IF k < 0 THEN ShiftLeft(p, -k) ELSE p,
                          IF k > 0 THEN ShiftLeft(q, k) ELSE q, k + e)
        At(k0) ==
            Cut(k0, IF k0 + e < MinExponent THEN MinExponent - e ELSE k0)
        From(d) ==
            At((IF (IF d >= 0 THEN BigLeq(ShiftLeft(q, d), p)
                    ELSE BigLeq(q, ShiftLeft(p, -d)))
                THEN d ELSE d - 1) - 52)
    IN  IF p = <<>> THEN Zero ELSE From(BitLen(p) - BitLen(q))

\* a + b; a term below a quarter of the last digit of the other adds
\* nothing
DblAdd(a, b) ==
    IF a.m = <<>> THEN b
    ELSE IF b.m = <<>> THEN a
    ELSE IF b.x - a.x > 55 THEN b
    ELSE IF a.x - b.x > 55 THEN a
    ELSE LET x == IF a.x < b.x THEN a.x ELSE b.x
         IN  RoundWhole(BigAdd(ShiftLeft(a.m, a.x - x),
                               ShiftLeft(b.m, b.x - x)), x)

\* a - b for a >= b
DblSub(a, b) ==
    IF b.m = <<>> \/ a.x - b.x > 55 THEN a
    ELSE LET x == IF a.x < b.x THEN a.x ELSE b.x
         IN  RoundWhole(BigSub(ShiftLeft(a.m, a.x - x),
                               ShiftLeft(b.m, b.x - x)), x)

\* a * b
DblMul(a, b) ==
    IF b.m = <<>> \/ a.m = <<>> THEN Zero
    ELSE RoundWhole(BigMul(a.m, b.m), a.x + b.x)

\* a / b for b above 0
DblDiv(a, b) ==
    IF a.m = <<>> THEN Zero ELSE Round(a.m, b.m, a.x - b.x)

\* a < b
DblLess(a, b) ==
    IF a.m = <<>> THEN b.m # <<>>
    ELSE IF b.m = <<>> THEN FALSE
    ELSE IF a.x # b.x THEN a.x < b.x
    ELSE BigLess(a.m, b.m)

\* a <= b
DblLeq(a, b) == ~DblLess(b, a)

\* the double of the quint64 n, a long number
FromQuint64(n) == RoundWhole(n, 0)

RECURSIVE Pow10(_)
\* 10^n
Pow10(n) ==
    IF n <= 9 THEN BigOf(10^n) ELSE BigMul(BigOf(10^9), Pow10(n - 9))

\* the double of the literal n / 10^digits for a natural number n, as the
\* compiler reads the literals of the code: Decimal(9, 1) is 0.9,
\* Decimal(1, 0) is 1.0
Decimal(n, digits) ==
    IF digits = 0 THEN FromQuint64(BigOf(n))
    ELSE Round(BigOf(n), Pow10(digits), 0)

\* the double 2^n for -1022 <= n
PowerOfTwo(n) == Double(ShiftLeft(BigOf(1), 52), n - 52)

\* the double 1.0
One == PowerOfTwo(0)

\* the double 1000.0, the milliseconds of a second
Thousand == FromQuint64(BigOf(1000))

\* the literal 0.9 of update: the smoothing weight of a run that has gone on
\* for long
SmoothingScale == Decimal(9, 1)

\* the literal 0.7 of update: what a call leaves of _initialSmoothing
SmoothingDecay == Decimal(7, 1)

\* the share of the peak file rate at and below which nearMaxFps is 0
fpsL == Decimal(5, 1)

\* the share of the peak file rate from which on nearMaxFps is 1
fpsU == Decimal(8, 1)

\* the share of the peak byte rate at and below which slowTransfer is 1
transL == Decimal(1, 2)

\* the share of the peak byte rate from which on slowTransfer is 0
transU == Decimal(1, 1)

\* the whole part of the double d
Floor(d) ==
    IF d.x >= 0 THEN ShiftLeft(d.m, d.x) ELSE ShiftRight(d.m, -d.x)

\* qMin of two quint64 counters
qMin(a, b) == IF a < b THEN a ELSE b

\* qMax that returns its first argument
qMax_First(a, b) == a

\* qMax of two doubles
qMax(a, b) == IF DblLess(a, b) THEN b ELSE a

\* ------------------------------------------------------------ SyncFileItem

\* the csync instructions, as the switch of Progress::asActionString
\* lists them
Instructions ==
    {"CONFLICT", "SYNC", "NEW", "REMOVE", "EVAL_RENAME", "RENAME", "IGNORE",
     "STAT_ERROR", "ERROR", "NONE", "EVAL"}

\* instructions that Progress::asActionString names "downloading" or
\* "uploading": the operations that transfer file content
TransferInstructions == {"CONFLICT", "SYNC", "NEW"}

\* a default-constructed SyncFileItem
EmptyItem ==
    [file |-> "", size |-> 0, isDirectory |-> FALSE,
     instruction |-> "NONE", affectedItems |-> 1]

\* The items of one sync run, one per path: two plain files that transfer
\* content, a plain file with nothing to do, a directory with nothing to
\* do, and a removed directory that stands for two entries.
Items ==
    { [file |-> "a", size |-> 2, isDirectory |-> FALSE,
       instruction |-> "NEW", affectedItems |-> 1],
      [file |-> "b", size |-> 1, isDirectory |-> FALSE,
       instruction |-> "SYNC", affectedItems |-> 1],
      [file |-> "c", size |-> 1, isDirectory |-> FALSE,
       instruction |-> "NONE", affectedItems |-> 1],
      [file |-> "d", size |-> 0, isDirectory |-> TRUE,
       instruction |-> "NONE", affectedItems |-> 1],
      [file |-> "e", size |-> 1, isDirectory |-> TRUE,
       instruction |-> "REMOVE", affectedItems |-> 2] }

Paths == {it.file : it \in Items}

\* ProgressInfo::isSizeDependent: a plain file whose operation transfers
\* content counts toward the byte totals.
isSizeDependent(item) ==
    /\ ~item.isDirectory
    /\ item.instruction \in TransferInstructions

\* ------------------------------------------------- ProgressInfo::Progress

\* a default-constructed Progress
NewProgress ==
    [total |-> 0, completed |-> 0, prevCompleted |-> 0,
     progressPerSec |-> Zero, initialSmoothing |-> One]

\* setCompleted without the clamp to _total
setCompleted_NoClamp(p, completed) ==
    [p EXCEPT !.completed = completed,
              !.prevCompleted = qMin(p.prevCompleted, completed)]

\* setCompleted without the clamp of _prevCompleted
setCompleted_NoPrevClamp(p, completed) ==
    [p EXCEPT !.completed = qMin(completed, p.total)]

\* Progress::setCompleted
setCompleted(p, completed) ==
    LET c == qMin(completed, p.total)
    IN  [p EXCEPT !.completed = c,
                  !.prevCompleted = qMin(p.prevCompleted, c)]

\* update with the constant smoothing 0.9, without the ramp
update_NoRamp(p) ==
    LET smoothing == SmoothingScale
        delta == FromQuint64(BigOf(p.completed - p.prevCompleted))
    IN  [p EXCEPT
            !.progressPerSec =
                DblAdd(DblMul(smoothing, p.progressPerSec),
                       DblMul(DblSub(One, smoothing), delta)),
            !.prevCompleted = p.completed]

\* update that adds the new measurement to the old rate unweighted
update_KeepsOldRate(p) ==
    LET smoothing ==
            DblMul(SmoothingScale, DblSub(One, p.initialSmoothing))
        delta == FromQuint64(BigOf(p.completed - p.prevCompleted))
    IN  [p EXCEPT
            !.initialSmoothing = DblMul(p.initialSmoothing, SmoothingDecay),
            !.progressPerSec =
                DblAdd(p.progressPerSec,
                       DblMul(DblSub(One, smoothing), delta)),
            !.prevCompleted = p.completed]

\* Progress::update
update(p) ==
    LET smoothing ==
            DblMul(SmoothingScale, DblSub(One, p.initialSmoothing))
        delta == FromQuint64(BigOf(p.completed - p.prevCompleted))
    IN  [p EXCEPT
            !.initialSmoothing = DblMul(p.initialSmoothing, SmoothingDecay),
            !.progressPerSec =
                DblAdd(DblMul(smoothing, p.progressPerSec),
                       DblMul(DblSub(One, smoothing), delta)),
            !.prevCompleted = p.completed]

\* Progress::remaining
remaining(p) == p.total - p.completed

\* -------------------------------------------------------------- the state

VARIABLES
    _fileProgress,              \* Progress of the file count
    _sizeProgress,              \* Progress of the byte count
    _currentItems,              \* QHash path -> ProgressItem, the in-flight set
    _totalSizeOfCompletedJobs,  \* bytes of the finished size-dependent items
    _lastCompletedItem,         \* SyncFileItem
    _maxFilesPerSecond,         \* peak of _fileProgress.progressPerSec
    _maxBytesPerSecond,         \* peak of _sizeProgress.progressPerSec
    ticks,                      \* number of updateEstimates calls so far
    lastOp,                     \* the caller's last call: [op, item, completed]
    doneItems,                  \* the paths setProgressComplete was called for
    phase,                      \* where the life of the one item stands
    queried,                    \* the estimate the last call returned, if any
    emitted,                    \* the signals the last call emitted, in order
    _permissions,               \* Share::_permissions, a set of flags
    _passwordSet,               \* LinkShare::_passwordSet
    _expireDate,                \* LinkShare::_expireDate
    jobs                        \* the OcsShareJobs of the share without a reply yet

progVars ==
    <<_fileProgress, _sizeProgress, _currentItems, _totalSizeOfCompletedJobs,
      _lastCompletedItem, _maxFilesPerSecond, _maxBytesPerSecond, ticks>>

shareVars == <<_permissions, _passwordSet, _expireDate, jobs>>

vars == <<progVars, lastOp, doneItems, phase, queried, emitted, shareVars>>

RECURSIVE SumOver(_, _)
\* sum of f[x] over the finite set S
SumOver(f, S) ==
    IF S = {} THEN 0
    ELSE LET x == CHOOSE y \in S : TRUE
         IN  f[x] + SumOver(f, S \ {x})

\* inFlightBytes without the isSizeDependent test
inFlightBytes_All(i) == i.progress.completed

\* the bytes one in-flight ProgressItem adds in recomputeCompletedSize
inFlightBytes(i) ==
    IF isSizeDependent(i.item) THEN i.progress.completed ELSE 0

\* the sum ProgressInfo::recomputeCompletedSize passes to setCompleted
completedSizeSum(items, done) ==
    done + SumOver([k \in DOMAIN items |-> inFlightBytes(items[k])], DOMAIN items)

\* ProgressInfo::recomputeCompletedSize
recomputeCompletedSize(sizeProgress, items, done) ==
    setCompleted(sizeProgress, completedSizeSum(items, done))

\* QHash::remove: the hash without key k
Without(items, k) == [j \in DOMAIN items \ {k} |-> items[j]]

\* QHash::operator[]: the entry of key k, default-constructed when absent
Entry(items, k) ==
    IF k \in DOMAIN items THEN items[k]
    ELSE [item |-> EmptyItem, progress |-> NewProgress]

\* the hash with key k bound to v
With(items, k, v) ==
    [j \in DOMAIN items \cup {k} |-> IF j = k THEN v ELSE items[j]]

\* the peak rates before any rate was observed
InitialPeakRate == Zero

\* the flags of Share::Permissions that the code names
PermissionFlags == {"PermissionRead", "PermissionUpdate", "PermissionCreate"}

\* a default-constructed QDate, which is not valid
NullDate == ""

\* LinkShare::LinkShare for a link that can be read, without a password
\* and without an expiry date; no job was created yet
InitShare ==
    /\ _permissions = {"PermissionRead"}
    /\ _passwordSet = FALSE
    /\ _expireDate = NullDate
    /\ jobs = <<>>

Init ==
    /\ _fileProgress = NewProgress
    /\ _sizeProgress = NewProgress
    /\ _currentItems = <<>>
    /\ _totalSizeOfCompletedJobs = 0
    /\ _lastCompletedItem = EmptyItem
    /\ _maxFilesPerSecond = InitialPeakRate
    /\ _maxBytesPerSecond = InitialPeakRate
    /\ ticks = 0
    /\ lastOp = [op |-> "none", item |-> EmptyItem, completed |-> 0]
    /\ doneItems = {}
    /\ phase = [step |-> "new", file |-> ""]
    /\ queried = [op |-> "none"]
    /\ emitted = <<>>
    /\ InitShare

\* adjustTotalsForFile that counts every directory
adjustTotalsForFile_EveryDirectory(item) ==
    /\ _fileProgress.total < MaxTotalFiles
    /\ _fileProgress' = [_fileProgress EXCEPT !.total = @ + 1]
    /\ _sizeProgress' =
          IF ~item.isDirectory /\ isSizeDependent(item)
          THEN [_sizeProgress EXCEPT !.total = @ + item.size]
          ELSE _sizeProgress
    /\ UNCHANGED <<_currentItems, _totalSizeOfCompletedJobs, _lastCompletedItem,
                   _maxFilesPerSecond, _maxBytesPerSecond, ticks>>

\* ProgressInfo::adjustTotalsForFile, called while _fileProgress._total
\* is below limit
adjustTotalsForFileWithin(item, limit) ==
    /\ _fileProgress.total < limit
    /\ IF ~item.isDirectory
       THEN /\ _fileProgress' = [_fileProgress EXCEPT !.total = @ + 1]
            /\ _sizeProgress' =
                  IF isSizeDependent(item)
                  THEN [_sizeProgress EXCEPT !.total = @ + item.size]
                  ELSE _sizeProgress
       ELSE /\ _fileProgress' =
                  IF item.instruction # "NONE"
                  THEN [_fileProgress EXCEPT !.total = @ + 1]
                  ELSE _fileProgress
            /\ _sizeProgress' = _sizeProgress
    /\ UNCHANGED <<_currentItems, _totalSizeOfCompletedJobs, _lastCompletedItem,
                   _maxFilesPerSecond, _maxBytesPerSecond, ticks>>

\* ProgressInfo::adjustTotalsForFile
adjustTotalsForFile(item) == adjustTotalsForFileWithin(item, MaxTotalFiles)

\* setProgressComplete that does not add the item's size to
\* _totalSizeOfCompletedJobs
setProgressComplete_NoFold(item) ==
    /\ isSizeDependent(item) => _totalSizeOfCompletedJobs < MaxCompletedJobsSize
    /\ LET items == Without(_currentItems, item.file)
       IN  /\ _currentItems' = items
           /\ _fileProgress' =
                 setCompleted(_fileProgress,
                              _fileProgress.completed + item.affectedItems)
           /\ _sizeProgress' =
                 recomputeCompletedSize(_sizeProgress, items,
                                        _totalSizeOfCompletedJobs)
    /\ _lastCompletedItem' = item
    /\ UNCHANGED <<_totalSizeOfCompletedJobs, _maxFilesPerSecond,
                   _maxBytesPerSecond, ticks>>

\* setProgressComplete that leaves the item in _currentItems
setProgressComplete_NoRemove(item) ==
    /\ isSizeDependent(item) => _totalSizeOfCompletedJobs < MaxCompletedJobsSize
    /\ LET done == IF isSizeDependent(item)
                   THEN _totalSizeOfCompletedJobs + item.size
                   ELSE _totalSizeOfCompletedJobs
       IN  /\ _fileProgress' =
                 setCompleted(_fileProgress,
                              _fileProgress.completed + item.affectedItems)
           /\ _totalSizeOfCompletedJobs' = done
           /\ _sizeProgress' =
                 recomputeCompletedSize(_sizeProgress, _currentItems, done)
    /\ _lastCompletedItem' = item
    /\ UNCHANGED <<_currentItems, _maxFilesPerSecond, _maxBytesPerSecond, ticks>>

\* ProgressInfo::setProgressComplete
setProgressComplete(item) ==
    /\ isSizeDependent(item) => _totalSizeOfCompletedJobs < MaxCompletedJobsSize
    /\ LET items == Without(_currentItems, item.file)
           done == IF isSizeDependent(item)
                   THEN _totalSizeOfCompletedJobs + item.size
                   ELSE _totalSizeOfCompletedJobs
       IN  /\ _currentItems' = items
           /\ _fileProgress' =
                 setCompleted(_fileProgress,
                              _fileProgress.completed + item.affectedItems)
           /\ _totalSizeOfCompletedJobs' = done
           /\ _sizeProgress' = recomputeCompletedSize(_sizeProgress, items, done)
    /\ _lastCompletedItem' = item
    /\ UNCHANGED <<_maxFilesPerSecond, _maxBytesPerSecond, ticks>>

\* setProgressItem that leaves _lastCompletedItem alone
setProgressItem_KeepsLastCompleted(item, completed) ==
    /\ LET old == Entry(_currentItems, item.file).progress
           new == setCompleted([old EXCEPT !.total = item.size], completed)
           items == With(_currentItems, item.file,
                         [item |-> item, progress |-> new])
       IN  /\ _currentItems' = items
           /\ _sizeProgress' =
                 recomputeCompletedSize(_sizeProgress, items,
                                        _totalSizeOfCompletedJobs)
    /\ UNCHANGED <<_fileProgress, _totalSizeOfCompletedJobs, _lastCompletedItem,
                   _maxFilesPerSecond, _maxBytesPerSecond, ticks>>

\* ProgressInfo::setProgressItem
setProgressItem(item, completed) ==
    /\ LET old == Entry(_currentItems, item.file).progress
           new == setCompleted([old EXCEPT !.total = item.size], completed)
           items == With(_currentItems, item.file,
                         [item |-> item, progress |-> new])
       IN  /\ _currentItems' = items
           /\ _sizeProgress' =
                 recomputeCompletedSize(_sizeProgress, items,
                                        _totalSizeOfCompletedJobs)
    /\ _lastCompletedItem' = EmptyItem
    /\ UNCHANGED <<_fileProgress, _totalSizeOfCompletedJobs,
                   _maxFilesPerSecond, _maxBytesPerSecond, ticks>>

\* updateEstimates that takes the peaks before it advances the estimators
updateEstimates_PeaksFirst ==
    /\ ticks < MaxTicks
    /\ ticks' = ticks + 1
    /\ _sizeProgress' = update(_sizeProgress)
    /\ _fileProgress' = update(_fileProgress)
    /\ _currentItems' =
          [k \in DOMAIN _currentItems |->
              [_currentItems[k] EXCEPT !.progress = update(@)]]
    /\ _maxFilesPerSecond' =
          qMax(_fileProgress.progressPerSec, _maxFilesPerSecond)
    /\ _maxBytesPerSecond' =
          qMax(_sizeProgress.progressPerSec, _maxBytesPerSecond)
    /\ UNCHANGED <<_totalSizeOfCompletedJobs, _lastCompletedItem>>

\* updateEstimates that advances the two run-level estimators only
updateEstimates_SkipsItems ==
    /\ ticks < MaxTicks
    /\ ticks' = ticks + 1
    /\ _sizeProgress' = update(_sizeProgress)
    /\ _fileProgress' = update(_fileProgress)
    /\ _maxFilesPerSecond' =
          qMax(_fileProgress'.progressPerSec, _maxFilesPerSecond)
    /\ _maxBytesPerSecond' =
          qMax(_sizeProgress'.progressPerSec, _maxBytesPerSecond)
    /\ UNCHANGED <<_currentItems, _totalSizeOfCompletedJobs, _lastCompletedItem>>

\* ProgressInfo::updateEstimates, called while fewer than limit calls
\* were made
updateEstimatesWithin(limit) ==
    /\ ticks < limit
    /\ ticks' = ticks + 1
    /\ _sizeProgress' = update(_sizeProgress)
    /\ _fileProgress' = update(_fileProgress)
    /\ _currentItems' =
          [k \in DOMAIN _currentItems |->
              [_currentItems[k] EXCEPT !.progress = update(@)]]
    /\ _maxFilesPerSecond' =
          qMax(_fileProgress'.progressPerSec, _maxFilesPerSecond)
    /\ _maxBytesPerSecond' =
          qMax(_sizeProgress'.progressPerSec, _maxBytesPerSecond)
    /\ UNCHANGED <<_totalSizeOfCompletedJobs, _lastCompletedItem>>

\* ProgressInfo::updateEstimates
updateEstimates == updateEstimatesWithin(MaxTicks)

\* ------------------------------------------------------ ProgressDispatcher

\* the ProgressInfo object as a value: what a const ProgressInfo& carries
ProgressInfoValue ==
    [_fileProgress |-> _fileProgress,
     _sizeProgress |-> _sizeProgress,
     _currentItems |-> _currentItems,
     _totalSizeOfCompletedJobs |-> _totalSizeOfCompletedJobs,
     _lastCompletedItem |-> _lastCompletedItem,
     _maxFilesPerSecond |-> _maxFilesPerSecond,
     _maxBytesPerSecond |-> _maxBytesPerSecond]

\* the signal progressInfo(folder, progress)
progressInfo(folder, progress) ==
    [signal |-> "progressInfo", folder |-> folder, progress |-> progress]

\* setProgressInfo with the test that the code has commented out: a
\* ProgressInfo without items and without files is dropped as well
setProgressInfo_DropsEmptyProgress(folder, progress) ==
    /\ emitted' =
          IF \/ folder = ""
             \/ /\ DOMAIN progress._currentItems = {}
                /\ progress._fileProgress.total = 0
          THEN <<>>
          ELSE <<progressInfo(folder, progress)>>
    /\ UNCHANGED progVars

\* ProgressDispatcher::setProgressInfo
setProgressInfo(folder, progress) ==
    /\ emitted' =
          IF folder = "" THEN <<>>
          ELSE <<progressInfo(folder, progress)>>
    /\ UNCHANGED progVars

\* ------------------------------------------------------- Share, LinkShare

\* A QVariant holds the value as it is: a set of permission flags for the
\* int of setPermissions, a BOOLEAN, a string, or a date as a string.

\* new OcsShareJob(_account) with the request made on it
OcsShareJob(verb, value) == [verb |-> verb, value |-> value]

\* the pending jobs without the i-th of them
WithoutJob(pending, i) ==
    [j \in 1..(Len(pending) - 1) |-> IF j < i THEN pending[j] ELSE pending[j + 1]]

\* a setter or deleteShare: a job is created, connected and started;
\* nothing else happens before its reply
StartJob(verb, value) ==
    /\ Len(jobs) < MaxPendingJobs
    /\ jobs' = Append(jobs, OcsShareJob(verb, value))
    /\ emitted' = <<>>
    /\ UNCHANGED <<_permissions, _passwordSet, _expireDate>>

\* setPermissions that stores the permissions before the server replied
setPermissions_Optimistic(permissions) ==
    /\ Len(jobs) < MaxPendingJobs
    /\ jobs' = Append(jobs, OcsShareJob("setPermissions", permissions))
    /\ emitted' = <<>>
    /\ _permissions' = permissions
    /\ UNCHANGED <<_passwordSet, _expireDate>>

\* Share::setPermissions
setPermissions(permissions) == StartJob("setPermissions", permissions)

\* LinkShare::setPublicUpload
setPublicUpload(publicUpload) == StartJob("setPublicUpload", publicUpload)

\* LinkShare::setPassword
setPassword(password) == StartJob("setPassword", password)

\* LinkShare::setExpireDate
setExpireDate(date) == StartJob("setExpireDate", date)

\* the request of deleteShare carries no value, and slotDeleted takes none
\* of the reply
NoValue == "none"

\* Share::deleteShare
deleteShare == StartJob("deleteShare", NoValue)

\* Share::slotDeleted
slotDeleted ==
    /\ emitted' = <<[signal |-> "shareDeleted"]>>
    /\ UNCHANGED <<_permissions, _passwordSet, _expireDate>>

\* Share::slotPermissionsSet
slotPermissionsSet(value) ==
    /\ _permissions' = value
    /\ emitted' = <<[signal |-> "permissionsSet"]>>
    /\ UNCHANGED <<_passwordSet, _expireDate>>

\* LinkShare::slotPublicUploadSet
slotPublicUploadSet(value) ==
    /\ _permissions' =
          IF value
          THEN {"PermissionRead", "PermissionUpdate", "PermissionCreate"}
          ELSE {"PermissionRead"}
    /\ emitted' = <<[signal |-> "publicUploadSet"]>>
    /\ UNCHANGED <<_passwordSet, _expireDate>>

\* LinkShare::slotPasswordSet
slotPasswordSet(value) ==
    /\ _passwordSet' = (value = "")
    /\ emitted' = <<[signal |-> "passwordSet"]>>
    /\ UNCHANGED <<_permissions, _expireDate>>

\* LinkShare::slotExpireDateSet
slotExpireDateSet(value) ==
    /\ _expireDate' = value
    /\ emitted' = <<[signal |-> "expireDateSet"]>>
    /\ UNCHANGED <<_permissions, _passwordSet>>

\* the signal serverError(statusCode, message)
serverError(statusCode, message) ==
    [signal |-> "serverError", statusCode |-> statusCode, message |-> message]

\* Share::slotOcsError
slotOcsError(statusCode, message) ==
    /\ emitted' = <<serverError(statusCode, message)>>
    /\ UNCHANGED <<_permissions, _passwordSet, _expireDate>>

\* the i-th job emits shareJobFinished(reply, value): the slot that the
\* call which created the job connected runs, and the job is gone
shareJobFinished(i, value) ==
    /\ jobs' = WithoutJob(jobs, i)
    /\ CASE jobs[i].verb = "setPermissions" -> slotPermissionsSet(value)
         [] jobs[i].verb = "setPublicUpload" -> slotPublicUploadSet(value)
         [] jobs[i].verb = "setPassword" -> slotPasswordSet(value)
         [] jobs[i].verb = "setExpireDate" -> slotExpireDateSet(value)
         [] jobs[i].verb = "deleteShare" -> slotDeleted

\* the i-th job emits ocsError(statusCode, message): slotOcsError, which
\* every setter and deleteShare connected, runs, and the job is gone
ocsError(i, statusCode, message) ==
    /\ jobs' = WithoutJob(jobs, i)
    /\ slotOcsError(statusCode, message)

\* ------------------------------------------------------------ the queries

\* ProgressInfo::totalFiles
totalFiles == _fileProgress.total

\* ProgressInfo::completedFiles
completedFiles == _fileProgress.completed

\* ProgressInfo::currentFile
currentFile == completedFiles + Cardinality(DOMAIN _currentItems)

\* ProgressInfo::totalSize
totalSize == _sizeProgress.total

\* ProgressInfo::completedSize
completedSize == _sizeProgress.completed

\* the values an eta can take after a conversion to quint64 that C++
\* leaves undefined, of an infinity, of a not-a-number or of a double of
\* 2^64 or more: what the conversion instructions of the processors
\* yield, 0, 2^63 and 2^64 - 1
UndefinedEtas ==
    {BigOf(0), ShiftLeft(BigOf(1), 63),
     BigSub(ShiftLeft(BigOf(1), 64), BigOf(1))}

\* the outcomes of the conversion of the double d to quint64
ToQuint64(d) ==
    IF d.x + BitLen(d.m) > 64 THEN UndefinedEtas ELSE {Floor(d)}

\* the double x / rate * 1000 of a count x and a rate above 0
MsAtRate(x, rate) ==
    DblMul(DblDiv(FromQuint64(BigOf(x)), rate), Thousand)

\* a ProgressInfo::Estimates value: a rate in units per second and an eta
\* in milliseconds
Estimates(bandwidth, eta) ==
    [estimatedBandwidth |-> bandwidth, estimatedEta |-> eta]

\* estimates without the test of the rate: the quotient by a zero rate is
\* infinite or not-a-number, and its conversion to the eta is undefined
estimates_Unguarded(p) ==
    {Estimates(p.progressPerSec, eta) :
        eta \in IF p.progressPerSec # Zero
                THEN ToQuint64(MsAtRate(p.total - p.completed,
                                        p.progressPerSec))
                ELSE UndefinedEtas}

\* Progress::estimates: the values it can return, one unless the
\* conversion of the eta is undefined
estimates(p) ==
    {Estimates(p.progressPerSec, eta) :
        eta \in IF p.progressPerSec # Zero
                THEN ToQuint64(MsAtRate(p.total - p.completed,
                                        p.progressPerSec))
                ELSE {BigOf(0)}}

\* the class of the double x / rate * 1000 for a count x: IEEE division by
\* a zero rate gives an infinity, or not-a-number for 0 / 0
TermClass(x, rate) ==
    IF rate # Zero THEN "finite"
    ELSE IF x = 0 THEN "nan" ELSE "inf"

\* optimisticEta of totalProgress: the values the sum of the two terms can
\* leave when it is converted to quint64.  With a peak of zero the sum is
\* an infinity or a not-a-number.
optimisticEta ==
    IF \/ _maxFilesPerSecond = Zero
       \/ _maxBytesPerSecond = Zero
    THEN UndefinedEtas
    ELSE ToQuint64(DblAdd(MsAtRate(remaining(_fileProgress),
                                   _maxFilesPerSecond),
                          MsAtRate(remaining(_sizeProgress),
                                   _maxBytesPerSecond)))

\* qBound(0.0, (rate - lower * peak) / ((upper - lower) * peak), 1.0),
\* which is qMax(0.0, qMin(1.0, quotient)).  For peak = 0 the quotient is
\* 0 / 0 (not-a-number, for which qBound returns its lower bound) or a
\* positive number by zero (infinity); a quotient that is not above 0
\* leaves 0.0.  A peak so small that the divisor rounds to zero gives an
\* infinity as well.
BoundedRatio(rate, peak, lower, upper) ==
    IF peak = Zero
    THEN (IF DblLess(peak, rate) THEN One ELSE Zero)
    ELSE IF DblLeq(rate, DblMul(lower, peak)) THEN Zero
    ELSE LET AtMostOne(quotient) ==
                 IF DblLess(One, quotient) THEN One ELSE quotient
             Over(span) ==
                 IF span = Zero THEN One
                 ELSE AtMostOne(DblDiv(DblSub(rate, DblMul(lower, peak)),
                                       span))
         IN  Over(DblMul(DblSub(upper, lower), peak))

\* nearMaxFps of totalProgress (fpsL = 0.5, fpsU = 0.8)
nearMaxFps ==
    BoundedRatio(_fileProgress.progressPerSec, _maxFilesPerSecond,
                 fpsL, fpsU)

\* slowTransfer of totalProgress (transL = 0.01, transU = 0.1)
slowTransfer ==
    DblSub(One,
           BoundedRatio(_sizeProgress.progressPerSec, _maxBytesPerSecond,
                        transL, transU))

\* beOptimistic of totalProgress
beOptimistic == DblMul(nearMaxFps, slowTransfer)

\* (1.0 - beOptimistic) * size.estimatedEta + beOptimistic * optimisticEta
\* for the two etas, quint64 values that become doubles, and the values
\* the conversion of the sum to quint64 can leave
Blend(w, eta, optimistic) ==
    ToQuint64(DblAdd(DblMul(DblSub(One, w), FromQuint64(eta)),
                     DblMul(w, FromQuint64(optimistic))))

\* the estimates totalProgress can return for the estimate size of the
\* byte counter: for each value of optimisticEta, each value of the blend
Blended(size) ==
    {[size EXCEPT !.estimatedEta = eta] :
        eta \in UNION {Blend(w, size.estimatedEta, optimistic) :
                          w \in {beOptimistic}, optimistic \in optimisticEta}}

\* totalProgress without the early return for a byte total of zero
totalProgress_AlwaysBlend ==
    UNION {Blended(size) : size \in estimates(_sizeProgress)}

\* ProgressInfo::totalProgress: the values it can return, one unless a
\* conversion is undefined
totalProgress ==
    IF _sizeProgress.total = 0 THEN estimates(_fileProgress)
    ELSE UNION {Blended(size) : size \in estimates(_sizeProgress)}

\* ProgressInfo::fileProgress: operator[] of the const hash returns a
\* default-constructed ProgressItem for a path that is not in flight
fileProgress(item) == estimates(Entry(_currentItems, item.file).progress)

\* ------------------------------------------------------------- the caller

\* the record of a call
Call(op, item, completed) == [op |-> op, item |-> item, completed |-> completed]

\* no estimate is being returned
NoQuery == [op |-> "none"]

\* the caller's bookkeeping of a call that is no query
Note(call, done, ph) ==
    /\ lastOp' = call
    /\ doneItems' = done
    /\ phase' = ph
    /\ queried' = NoQuery
    /\ emitted' = <<>>
    /\ UNCHANGED shareVars

\* The items of the runs in which the estimates are updated every second:
\* a plain file that transfers content and a removed directory.
RunItems == {it \in Items : it.file \in {"a", "e"}}

\* The items progress is reported for in those runs.
TransferItems == {it \in RunItems : isSizeDependent(it)}

\* the completed byte counts reported for an item: below, at and above
\* its size
ReportedRange(item) == 0..(item.size + 1)

\* The sync engine calls in any order, and the timer fires in between.
\* Of a call only the operation is recorded here, not its arguments.
Next ==
    \/ \E item \in RunItems :
          /\ adjustTotalsForFile(item)
          /\ Note(Call("adjustTotalsForFile", EmptyItem, 0), doneItems, phase)
    \/ \E item \in TransferItems : \E completed \in ReportedRange(item) :
          /\ setProgressItem(item, completed)
          /\ Note(Call("setProgressItem", EmptyItem, 0), doneItems, phase)
    \/ \E item \in RunItems :
          /\ setProgressComplete(item)
          /\ Note(Call("setProgressComplete", EmptyItem, 0), doneItems, phase)
    \/ /\ updateEstimates
       /\ Note(Call("updateEstimates", EmptyItem, 0), doneItems, phase)

Spec == Init /\ [][Next]_vars

\* The items progress and completion are reported for in the runs without
\* the timer: the two files that transfer content and the removed directory.
ReportItems == {it \in Items : it.file \in {"a", "b", "e"}}

\* Runs without the timer, over all items: every call is recorded with its
\* arguments, and so is every path completion was reported for.
NextReports ==
    \/ \E item \in Items :
          /\ adjustTotalsForFile(item)
          /\ Note(Call("adjustTotalsForFile", item, 0), doneItems, phase)
    \/ \E item \in ReportItems : \E completed \in ReportedRange(item) :
          /\ setProgressItem(item, completed)
          /\ Note(Call("setProgressItem", item, completed), doneItems, phase)
    \/ \E item \in ReportItems :
          /\ setProgressComplete(item)
          /\ Note(Call("setProgressComplete", item, 0),
                  doneItems \cup {item.file}, phase)

SpecReports == Init /\ [][NextReports]_vars

\* The items whose life the engine can run alone: plain size-dependent
\* files with an affected item count of 1.
LifecycleItems ==
    {it \in Items : ~it.isDirectory /\ isSizeDependent(it) /\ it.affectedItems = 1}

\* The life of one item: registered, reported any number of times with
\* counts up to its size, completed; the timer fires in between.
NextLifecycle ==
    \/ \E item \in LifecycleItems :
          /\ phase.step = "new"
          /\ adjustTotalsForFile(item)
          /\ Note(Call("adjustTotalsForFile", item, 0), doneItems,
                  [step |-> "registered", file |-> item.file])
    \/ \E item \in LifecycleItems : \E completed \in 0..item.size :
          /\ phase.step \in {"registered", "reported"}
          /\ phase.file = item.file
          /\ setProgressItem(item, completed)
          /\ Note(Call("setProgressItem", item, completed), doneItems,
                  [step |-> "reported", file |-> item.file])
    \/ \E item \in LifecycleItems :
          /\ phase.step \in {"registered", "reported"}
          /\ phase.file = item.file
          /\ setProgressComplete(item)
          /\ Note(Call("setProgressComplete", item, 0),
                  doneItems \cup {item.file},
                  [step |-> "completed", file |-> item.file])
    \/ /\ updateEstimates
       /\ Note(Call("updateEstimates", EmptyItem, 0), doneItems, phase)

SpecLifecycle == Init /\ [][NextLifecycle]_vars

\* the folder aliases the dispatcher is called with: the empty string and
\* the aliases of two folders
Folders == {"", "f1", "f2"}

\* The life of one item, with the ProgressInfo published at any moment
\* under any folder alias.
NextDispatch ==
    \/ NextLifecycle
    \/ \E folder \in Folders :
          /\ setProgressInfo(folder, ProgressInfoValue)
          /\ lastOp' = [op |-> "setProgressInfo", folder |-> folder,
                        progress |-> ProgressInfoValue]
          /\ UNCHANGED <<doneItems, phase, queried, shareVars>>

SpecDispatch == Init /\ [][NextDispatch]_vars

\* the permissions setPermissions is called with and a reply carries
PermissionValues ==
    { {"PermissionRead"},
      {"PermissionRead", "PermissionUpdate", "PermissionCreate"},
      {"PermissionRead", "PermissionUpdate"} }

\* the passwords setPassword is called with and a reply carries
Passwords == {"", "secret"}

\* the dates setExpireDate is called with and a reply carries
Dates == {NullDate, "2027-01-01"}

\* the values a request and the reply to it carry
ValuesOf(verb) ==
    CASE verb = "setPermissions" -> PermissionValues
      [] verb = "setPublicUpload" -> BOOLEAN
      [] verb = "setPassword" -> Passwords
      [] verb = "setExpireDate" -> Dates
      [] verb = "deleteShare" -> {NoValue}

\* the errors of the server: status code and message
ServerErrors == {<<403, "Forbidden">>, <<404, "Not found">>}

\* the caller's record of a step of the share; the ProgressInfo is not
\* touched
NoteShare(call) ==
    /\ lastOp' = call
    /\ UNCHANGED <<progVars, doneItems, phase, queried>>

\* A link share: the user interface calls the setters and deleteShare in
\* any order, and the reply to each pending job, a success or an error of
\* the server, arrives at any moment and in any order.  The Share object
\* stays as it is when shareDeleted was emitted: what its owner does with
\* it then is not in this file.
NextShare ==
    \/ \E permissions \in PermissionValues :
          /\ setPermissions(permissions)
          /\ NoteShare([op |-> "setPermissions", value |-> permissions])
    \/ \E publicUpload \in BOOLEAN :
          /\ setPublicUpload(publicUpload)
          /\ NoteShare([op |-> "setPublicUpload", value |-> publicUpload])
    \/ \E password \in Passwords :
          /\ setPassword(password)
          /\ NoteShare([op |-> "setPassword", value |-> password])
    \/ \E date \in Dates :
          /\ setExpireDate(date)
          /\ NoteShare([op |-> "setExpireDate", value |-> date])
    \/ /\ deleteShare
       /\ NoteShare([op |-> "deleteShare", value |-> NoValue])
    \/ \E i \in 1..Len(jobs) : \E value \in ValuesOf(jobs[i].verb) :
          /\ shareJobFinished(i, value)
          /\ NoteShare([op |-> "shareJobFinished", job |-> jobs[i],
                        value |-> value])
    \/ \E i \in 1..Len(jobs) : \E e \in ServerErrors :
          /\ ocsError(i, e[1], e[2])
          /\ NoteShare([op |-> "ocsError", job |-> jobs[i],
                        statusCode |-> e[1], message |-> e[2]])

SpecShare == Init /\ [][NextShare]_vars

\* a call of totalProgress: the estimate is returned, the members stay
totalProgressCall ==
    /\ \E result \in totalProgress :
          queried' =
             [op |-> "totalProgress",
              result |-> result,
              sizeEta |-> {size.estimatedEta : size \in estimates(_sizeProgress)},
              optimisticEta |-> optimisticEta,
              nearMaxFps |-> nearMaxFps,
              slowTransfer |-> slowTransfer,
              beOptimistic |-> beOptimistic,
              fileTerm |-> TermClass(remaining(_fileProgress), _maxFilesPerSecond),
              sizeTerm |-> TermClass(remaining(_sizeProgress), _maxBytesPerSecond)]
    /\ UNCHANGED <<progVars, lastOp, doneItems, phase, emitted, shareVars>>

\* Runs that stall: everything is registered and every byte count is
\* reported before the first tick; then the timer goes on firing while
\* nothing moves but the completions.  totalProgress is asked at any
\* moment.
NextStall ==
    \/ \E item \in RunItems :
          /\ ticks = 0
          /\ adjustTotalsForFile(item)
          /\ Note(Call("adjustTotalsForFile", EmptyItem, 0), doneItems, phase)
    \/ \E item \in TransferItems : \E completed \in ReportedRange(item) :
          /\ ticks = 0
          /\ setProgressItem(item, completed)
          /\ Note(Call("setProgressItem", EmptyItem, 0), doneItems, phase)
    \/ \E item \in RunItems :
          /\ setProgressComplete(item)
          /\ Note(Call("setProgressComplete", EmptyItem, 0), doneItems, phase)
    \/ /\ updateEstimatesWithin(MaxStallTicks)
       /\ Note(Call("updateEstimates", EmptyItem, 0), doneItems, phase)
    \/ totalProgressCall

SpecStall == Init /\ [][NextStall]_vars

\* Long runs of the plain file: it is registered, reported and completed
\* before the first tick, and then the timer goes on firing, once a
\* second, while nothing moves.
NextLongRun ==
    \/ \E item \in TransferItems :
          /\ ticks = 0
          /\ adjustTotalsForFile(item)
          /\ Note(Call("adjustTotalsForFile", EmptyItem, 0), doneItems, phase)
    \/ \E item \in TransferItems : \E completed \in ReportedRange(item) :
          /\ ticks = 0
          /\ setProgressItem(item, completed)
          /\ Note(Call("setProgressItem", EmptyItem, 0), doneItems, phase)
    \/ \E item \in TransferItems :
          /\ ticks = 0
          /\ setProgressComplete(item)
          /\ Note(Call("setProgressComplete", EmptyItem, 0), doneItems, phase)
    \/ /\ updateEstimatesWithin(MaxLongTicks)
       /\ Note(Call("updateEstimates", EmptyItem, 0), doneItems, phase)

SpecLongRun == Init /\ [][NextLongRun]_vars

\* The entries of the runs over many entries: a plain file below a removed
\* directory, and two removed directories, each of which is completed in
\* one call that stands for itself and every entry below it.
BulkItems ==
    { [file |-> "f", size |-> 1, isDirectory |-> FALSE,
       instruction |-> "REMOVE", affectedItems |-> 1],
      [file |-> "g", size |-> 0, isDirectory |-> TRUE,
       instruction |-> "REMOVE", affectedItems |-> 365],
      [file |-> "h", size |-> 0, isDirectory |-> TRUE,
       instruction |-> "REMOVE", affectedItems |-> 265] }

\* the removed directories among them
RemovedDirectories == {it \in BulkItems : it.isDirectory}

\* every entry of the run over many entries was registered
BulkRegistered == _fileProgress.total >= MaxBulkEntries

\* Runs over many entries: the plain file that transfers content and the
\* entries of the removed directories are registered first; then the
\* file's byte counts are reported before the first tick, the removed
\* directories complete at any moment, the timer fires, and totalProgress
\* is asked at any moment.
NextBulk ==
    \/ \E item \in TransferItems :
          /\ adjustTotalsForFile(item)
          /\ Note(Call("adjustTotalsForFile", EmptyItem, 0), doneItems, phase)
    \/ \E item \in BulkItems :
          /\ adjustTotalsForFileWithin(item, MaxBulkEntries)
          /\ Note(Call("adjustTotalsForFile", EmptyItem, 0), doneItems, phase)
    \/ \E item \in TransferItems : \E completed \in ReportedRange(item) :
          /\ BulkRegistered
          /\ ticks = 0
          /\ setProgressItem(item, completed)
          /\ Note(Call("setProgressItem", EmptyItem, 0), doneItems, phase)
    \/ \E item \in RemovedDirectories :
          /\ BulkRegistered
          /\ setProgressComplete(item)
          /\ Note(Call("setProgressComplete", EmptyItem, 0), doneItems, phase)
    \/ /\ BulkRegistered
       /\ updateEstimatesWithin(MaxBulkTicks)
       /\ Note(Call("updateEstimates", EmptyItem, 0), doneItems, phase)
    \/ /\ BulkRegistered
       /\ totalProgressCall

SpecBulk == Init /\ [][NextBulk]_vars

\* a call of fileProgress through the operator[] of a hash that is not
\* const, which inserts a default-constructed ProgressItem for a path that
\* is not in flight
fileProgressCall_Inserts(item) ==
    /\ \E result \in fileProgress(item) :
          queried' = [op |-> "fileProgress", item |-> item, result |-> result]
    /\ _currentItems' = With(_currentItems, item.file,
                             Entry(_currentItems, item.file))
    /\ UNCHANGED <<_fileProgress, _sizeProgress, _totalSizeOfCompletedJobs,
                   _lastCompletedItem, _maxFilesPerSecond, _maxBytesPerSecond,
                   ticks, lastOp, doneItems, phase, emitted, shareVars>>

\* a call of fileProgress: the estimate is returned, the members stay
fileProgressCall(item) ==
    /\ \E result \in fileProgress(item) :
          queried' = [op |-> "fileProgress", item |-> item, result |-> result]
    /\ UNCHANGED <<progVars, lastOp, doneItems, phase, emitted, shareVars>>

\* The life of one item, with fileProgress asked at any moment for any of
\* the items that can be in flight.
NextItemQuery ==
    \/ NextLifecycle
    \/ \E item \in LifecycleItems : fileProgressCall(item)

SpecItemQuery == Init /\ [][NextItemQuery]_vars

\* ------------------------------------------------------------- the claims

\* the double x is n / 10^digits but for the rounding of the operations
\* that formed it: it differs by less than a tenth of the last digit
Around(x, n, digits) ==
    /\ DblLess(Decimal(10 * n - 1, digits + 1), x)
    /\ DblLess(x, Decimal(10 * n + 1, digits + 1))

\* the in-flight ProgressItems
InFlight == {_currentItems[k] : k \in DOMAIN _currentItems}

\* C1: in every reachable state both run-level estimators have
\* completed <= total.
C1_CompletedWithinTotal ==
    /\ _fileProgress.completed <= _fileProgress.total
    /\ _sizeProgress.completed <= _sizeProgress.total

\* C1 happens: after a tick, a completion of the directory that stands for
\* two entries was clamped to a file total of 1, while the finished bytes
\* exceed the byte total and the byte counter sits at the total.
C1_Witness ==
    /\ lastOp.op = "setProgressComplete"
    /\ ticks >= 1
    /\ _lastCompletedItem.affectedItems = 2
    /\ _fileProgress.total = 1
    /\ _fileProgress.completed = 1
    /\ _sizeProgress.total > 0
    /\ _totalSizeOfCompletedJobs > _sizeProgress.total
    /\ _sizeProgress.completed = _sizeProgress.total

\* C4 as stated: no step makes _fileProgress._completed or
\* _sizeProgress._completed smaller.
C4_CompletedMonotonic ==
    [][/\ _fileProgress'.completed >= _fileProgress.completed
       /\ _sizeProgress'.completed >= _sizeProgress.completed]_vars

\* C4 amended: _fileProgress._completed never becomes smaller, only a
\* setProgressItem call makes _sizeProgress._completed smaller, and
\* adjustTotalsForFile and updateEstimates leave it as it was.
C4_CompletedMonotonicButReports ==
    [][/\ _fileProgress'.completed >= _fileProgress.completed
       /\ _sizeProgress'.completed < _sizeProgress.completed
             => lastOp'.op = "setProgressItem"
       /\ lastOp'.op \in {"adjustTotalsForFile", "updateEstimates"}
             => _sizeProgress'.completed = _sizeProgress.completed]_vars

\* C4 happens: the byte counter stood at 2 when the only tick measured it
\* (rate 2.0 from a delta of 2), and a later setProgressItem with a smaller
\* count brought it to 1.
C4_Witness ==
    /\ lastOp.op = "setProgressItem"
    /\ ticks = 1
    /\ _sizeProgress.progressPerSec = Decimal(2, 0)
    /\ _sizeProgress.completed = 1

\* C6: previous-completed <= completed for both run-level estimators and
\* for the estimator of every in-flight item, in every reachable state.
C6_PrevWithinCompleted ==
    /\ _fileProgress.prevCompleted <= _fileProgress.completed
    /\ _sizeProgress.prevCompleted <= _sizeProgress.completed
    /\ \A i \in InFlight : i.progress.prevCompleted <= i.progress.completed

\* C6 happens: a tick recorded previous-completed = 2 for the byte counter
\* and for the in-flight file (rate 2.0), and a later report of 1 lowered
\* completed and previous-completed to 1.
C6_Witness ==
    /\ ticks = 1
    /\ _sizeProgress.progressPerSec = Decimal(2, 0)
    /\ _sizeProgress.completed = 1
    /\ _sizeProgress.prevCompleted = 1
    /\ \E i \in InFlight :
          /\ i.progress.progressPerSec = Decimal(2, 0)
          /\ i.progress.completed = 1
          /\ i.progress.prevCompleted = 1

\* C7: no step lowers _maxFilesPerSecond or _maxBytesPerSecond, and only
\* updateEstimates changes them.
C7_PeaksNeverDecrease ==
    [][/\ DblLeq(_maxFilesPerSecond, _maxFilesPerSecond')
       /\ DblLeq(_maxBytesPerSecond, _maxBytesPerSecond')
       /\ lastOp'.op # "updateEstimates"
             => /\ _maxFilesPerSecond' = _maxFilesPerSecond
                /\ _maxBytesPerSecond' = _maxBytesPerSecond]_vars

\* C7 happens: after the second tick both smoothed rates are below the
\* peaks the first tick recorded.
C7_Witness ==
    /\ ticks = 2
    /\ lastOp.op = "updateEstimates"
    /\ DblLess(_fileProgress.progressPerSec, _maxFilesPerSecond)
    /\ DblLess(_sizeProgress.progressPerSec, _maxBytesPerSecond)
    /\ DblLess(Zero, _fileProgress.progressPerSec)

\* the item of the run with path p
ItemOf(p) == CHOOSE it \in Items : it.file = p

\* the bytes of the size-dependent items among the paths S
SizeOfPaths(S) ==
    SumOver([p \in S |-> IF isSizeDependent(ItemOf(p)) THEN ItemOf(p).size ELSE 0], S)

\* the affected item counts of the paths S
AffectedOfPaths(S) == SumOver([p \in S |-> ItemOf(p).affectedItems], S)

\* C3: every completed item is folded into the completed counters exactly
\* once, however often its completion is reported:
\* _totalSizeOfCompletedJobs is the sum of the sizes of the distinct
\* size-dependent items that completed, and the file counter holds no more
\* than their affected counts, once each.
C3_FoldedExactlyOnce ==
    /\ _totalSizeOfCompletedJobs = SizeOfPaths(doneItems)
    /\ _fileProgress.completed <= AffectedOfPaths(doneItems)

\* the sum of the completed bytes of the in-flight size-dependent items
InFlightSizeDependentBytes ==
    SumOver([k \in DOMAIN _currentItems |->
                IF ~_currentItems[k].item.isDirectory
                   /\ _currentItems[k].item.instruction \in TransferInstructions
                THEN _currentItems[k].progress.completed ELSE 0],
            DOMAIN _currentItems)

\* C5: after every setProgressItem and setProgressComplete the byte
\* counter is min(byte total, _totalSizeOfCompletedJobs + completed bytes
\* of the in-flight size-dependent items).
C5_CompletedSizeIsSum ==
    lastOp.op \in {"setProgressItem", "setProgressComplete"} =>
        LET sum == _totalSizeOfCompletedJobs + InFlightSizeDependentBytes
        IN  _sizeProgress.completed =
                IF sum <= _sizeProgress.total THEN sum ELSE _sizeProgress.total

\* C5 happens: below the byte total, with finished bytes, a size-dependent
\* file in flight with bytes done and the directory in flight with a byte
\* count that adds nothing.
C5_Witness ==
    /\ lastOp.op = "setProgressItem"
    /\ _totalSizeOfCompletedJobs > 0
    /\ \E i \in InFlight : isSizeDependent(i.item) /\ i.progress.completed > 0
    /\ \E i \in InFlight : ~isSizeDependent(i.item) /\ i.progress.completed > 0
    /\ _sizeProgress.completed < _sizeProgress.total
    /\ _sizeProgress.completed > _totalSizeOfCompletedJobs

\* C9 as stated: setProgressComplete raises the file counter by the item's
\* affected item count, registered or not.
C9_CompleteAddsAffected ==
    [][lastOp'.op = "setProgressComplete" =>
          _fileProgress'.completed =
              _fileProgress.completed + lastOp'.item.affectedItems]_vars

\* C9 amended: setProgressComplete sets the file counter to
\* min(file total, file counter + affected item count).
C9_CompleteAddsAffectedClamped ==
    [][lastOp'.op = "setProgressComplete" =>
          LET sum == _fileProgress.completed + lastOp'.item.affectedItems
          IN  _fileProgress'.completed =
                  IF sum <= _fileProgress.total THEN sum
                  ELSE _fileProgress.total]_vars

\* C9 happens: the first completion reported is for the directory that
\* stands for two entries and was never registered; one file is
\* registered, and the counter stands at 1.
C9_Witness ==
    /\ lastOp.op = "setProgressComplete"
    /\ lastOp.item.affectedItems = 2
    /\ doneItems = {lastOp.item.file}
    /\ _sizeProgress.total > 0
    /\ _fileProgress.total = 1
    /\ _fileProgress.completed = 1

\* C10: adjustTotalsForFile adds 1 to the file total for a non-directory
\* and for a directory whose instruction is not NONE, adds the size to the
\* byte total for a size-dependent non-directory only, and changes neither
\* the completed counters, the in-flight set nor the peak rates.
C10_AdjustTotals ==
    [][lastOp'.op = "adjustTotalsForFile" =>
          LET item == lastOp'.item
          IN  /\ _fileProgress'.total =
                    _fileProgress.total
                    + (IF ~item.isDirectory \/ item.instruction # "NONE"
                       THEN 1 ELSE 0)
              /\ _sizeProgress'.total =
                    _sizeProgress.total
                    + (IF ~item.isDirectory /\ isSizeDependent(item)
                       THEN item.size ELSE 0)
              /\ _fileProgress'.completed = _fileProgress.completed
              /\ _sizeProgress'.completed = _sizeProgress.completed
              /\ _currentItems' = _currentItems
              /\ _maxFilesPerSecond' = _maxFilesPerSecond
              /\ _maxBytesPerSecond' = _maxBytesPerSecond]_vars

\* C10 happens: the last call registered the directory whose instruction
\* is NONE, after a file that is not size-dependent: one file, no bytes.
C10_Witness ==
    /\ lastOp.op = "adjustTotalsForFile"
    /\ lastOp.item.isDirectory
    /\ lastOp.item.instruction = "NONE"
    /\ _fileProgress.total = 1
    /\ _sizeProgress.total = 0

\* C2: a totalProgress call with a byte total above 0 divides by no peak
\* rate that is zero: neither optimistic-ETA term is the infinity or the
\* not-a-number of a division by zero.
C2_NoDivisionByZeroPeak ==
    (queried.op = "totalProgress" /\ totalSize > 0) =>
        /\ queried.fileTerm = "finite"
        /\ queried.sizeTerm = "finite"

\* C8: once the one item of size s was registered, reported with counts
\* up to s and completed, completedFiles = 1, completedSize = s, the item
\* is not in flight and _lastCompletedItem is the item.
C8_Lifecycle ==
    phase.step = "completed" =>
        /\ completedFiles = 1
        /\ completedSize = ItemOf(phase.file).size
        /\ phase.file \notin DOMAIN _currentItems
        /\ _lastCompletedItem = ItemOf(phase.file)

\* C8 happens, as in the spec's case at scale 2 for 500: the file of size 2
\* stood at 1 at the first tick and was complete at the second (byte rate
\* 1.0 from a delta of 1 at each tick, file rate 0.73 from deltas 0 and 1).
C8_Witness ==
    /\ phase = [step |-> "completed", file |-> "a"]
    /\ ticks = 2
    /\ _sizeProgress.progressPerSec = One
    /\ _fileProgress.progressPerSec = Decimal(73, 2)
    /\ completedSize = 2

\* the long number eta is what the conversion to quint64 leaves of the
\* double left / rate * 1000 for a count left and a rate above 0: its
\* whole part, when that is below 2^64
WholeMs(eta, left, rate) ==
    eta \in ToQuint64(DblMul(DblDiv(Decimal(left, 0), rate), Thousand))

\* C11 as stated: the bandwidth totalProgress returns is the smoothed rate
\* of the byte counter, whatever the byte total.
C11_BandwidthIsByteRate ==
    queried.op = "totalProgress" =>
        queried.result.estimatedBandwidth = _sizeProgress.progressPerSec

\* C11 amended: the bandwidth totalProgress returns is the smoothed rate of
\* the byte counter when the byte total is above 0, and the smoothed rate
\* of the file counter when the byte total is 0.
C11_BandwidthByByteTotal ==
    queried.op = "totalProgress" =>
        queried.result.estimatedBandwidth =
            IF totalSize > 0 THEN _sizeProgress.progressPerSec
            ELSE _fileProgress.progressPerSec

\* C11 happens: totalProgress was asked with a byte total above 0 while
\* the byte rate and the file rate were both above 0 and different, and it
\* returned the byte rate.
C11_Witness ==
    /\ queried.op = "totalProgress"
    /\ totalSize > 0
    /\ DblLess(Zero, _sizeProgress.progressPerSec)
    /\ DblLess(Zero, _fileProgress.progressPerSec)
    /\ _fileProgress.progressPerSec # _sizeProgress.progressPerSec
    /\ queried.result.estimatedBandwidth = _sizeProgress.progressPerSec

\* C12: with a byte total of 0, totalProgress returns the estimate of the
\* file counter unblended: its smoothed rate, and the eta 0 for a rate of 0
\* and else the whole part of the double remaining files / rate * 1000.
C12_FileEstimateUnmodified ==
    (queried.op = "totalProgress" /\ totalSize = 0) =>
        LET rate == _fileProgress.progressPerSec
            left == _fileProgress.total - _fileProgress.completed
            eta == queried.result.estimatedEta
        IN  /\ queried.result.estimatedBandwidth = rate
            /\ rate = Zero => eta = BigOf(0)
            /\ rate # Zero => WholeMs(eta, left, rate)

\* C12 happens: with a byte total of 0 and two entries registered, one
\* entry completed between the first tick and the second, and
\* totalProgress returned the file rate 0.73 with its eta of 1369 ms
\* (1 / 0.73 * 1000).
C12_Witness ==
    /\ queried.op = "totalProgress"
    /\ totalSize = 0
    /\ ticks = 2
    /\ _fileProgress.total - _fileProgress.completed = 1
    /\ queried.result.estimatedBandwidth = Decimal(73, 2)
    /\ queried.result.estimatedEta = BigOf(1369)

\* C13: setProgressInfo(folder, progress) emits nothing for an empty
\* folder and exactly one progressInfo(folder, progress), with the folder
\* and the ProgressInfo it was called with, for every other folder,
\* whatever the ProgressInfo holds.
C13_EmitsIffFolder ==
    lastOp.op = "setProgressInfo" =>
        /\ lastOp.folder = "" => emitted = <<>>
        /\ lastOp.folder # "" =>
              /\ Len(emitted) = 1
              /\ emitted[1].signal = "progressInfo"
              /\ emitted[1].folder = lastOp.folder
              /\ emitted[1].progress = lastOp.progress
              /\ emitted[1].progress = ProgressInfoValue

\* C13 happens: a ProgressInfo without items and without files was
\* published under a folder alias, and the signal went out.
C13_Witness ==
    /\ lastOp.op = "setProgressInfo"
    /\ lastOp.folder = "f1"
    /\ lastOp.progress._fileProgress.total = 0
    /\ DOMAIN lastOp.progress._currentItems = {}
    /\ Len(emitted) = 1

\* C14: the estimate of an item's Progress has the smoothed rate as its
\* bandwidth, the eta 0 when the rate is 0, and else the whole part of
\* the double (total - completed) / rate * 1000.
C14_EstimatesGuarded ==
    queried.op = "fileProgress" =>
        LET p == Entry(_currentItems, queried.item.file).progress
            rate == p.progressPerSec
            left == p.total - p.completed
            eta == queried.result.estimatedEta
        IN  /\ queried.result.estimatedBandwidth = rate
            /\ rate = Zero => eta = BigOf(0)
            /\ rate # Zero => WholeMs(eta, left, rate)

\* C14 happens: the file of size 2 stood at 1 at the first tick and did
\* not move until the second; fileProgress returned the rate 0.27 and the
\* eta 3703 ms (1 / 0.27 * 1000 = 3703.7).
C14_Witness ==
    /\ queried.op = "fileProgress"
    /\ queried.item.file \in DOMAIN _currentItems
    /\ ticks = 2
    /\ Around(queried.result.estimatedBandwidth, 27, 2)
    /\ queried.result.estimatedEta = BigOf(3703)

\* the smoothing weight 0.9 * (1 - ramp) the next update of estimator p
\* uses
SmoothingWeight(p) ==
    DblMul(SmoothingScale, DblSub(One, p.initialSmoothing))

\* what C15 says of one estimator, p before a tick and q after it: a tick
\* without progress since the tick before leaves a rate that is not above
\* the rate before, and the weight it was multiplied by is below 0.9.
IdleTickDecaysBelow(p, q) ==
    p.completed = p.prevCompleted =>
        /\ DblLeq(q.progressPerSec, p.progressPerSec)
        /\ DblLess(SmoothingWeight(p), SmoothingScale)

\* C15 as stated: a tick that finds completed unchanged since the tick
\* before multiplies the smoothed rate by a weight in [0, 0.9), for both
\* run-level estimators and for the estimator of every in-flight item.
C15_IdleTickWeightBelow ==
    [][lastOp'.op = "updateEstimates" =>
          /\ IdleTickDecaysBelow(_fileProgress, _fileProgress')
          /\ IdleTickDecaysBelow(_sizeProgress, _sizeProgress')
          /\ \A k \in DOMAIN _currentItems :
                IdleTickDecaysBelow(_currentItems[k].progress,
                                    _currentItems'[k].progress)]_vars

\* what C15 amended says of one estimator, p before a tick and q after
\* it: a tick without progress since the tick before leaves the product
\* of the rate and the weight, which is at most 0.9: the rate after is at
\* most 0.9 of the rate before, and below a rate before of 2^-1022 or
\* more (smaller doubles have too few digits for 0.9 of them to differ).
IdleTickDecays(p, q) ==
    p.completed = p.prevCompleted =>
        /\ \E w \in {SmoothingWeight(p)} :
              /\ DblLeq(w, SmoothingScale)
              /\ q.progressPerSec = DblMul(w, p.progressPerSec)
        /\ DblLeq(q.progressPerSec, DblMul(SmoothingScale, p.progressPerSec))
        /\ DblLeq(q.progressPerSec, p.progressPerSec)
        /\ DblLeq(PowerOfTwo(-1022), p.progressPerSec) =>
              DblLess(q.progressPerSec, p.progressPerSec)

\* C15 amended: a tick that finds completed unchanged since the tick
\* before multiplies the smoothed rate by a weight in [0, 0.9], which is
\* 0.9 itself once the ramp is too small to change the double 1.0 - ramp:
\* the rate after is at most 0.9 of the rate before, never above it, and
\* below it for a rate before of 2^-1022 or more, for both run-level
\* estimators and for the estimator of every in-flight item.
C15_IdleTickDecaysRate ==
    [][lastOp'.op = "updateEstimates" =>
          /\ IdleTickDecays(_fileProgress, _fileProgress')
          /\ IdleTickDecays(_sizeProgress, _sizeProgress')
          /\ \A k \in DOMAIN _currentItems :
                IdleTickDecays(_currentItems[k].progress,
                               _currentItems'[k].progress)]_vars

\* C15 happens: more than 106 ticks after the last report of the run the
\* rates are still above 0, the byte rate below 0.001, and the weight of
\* the next tick is 0.9 itself, for the byte counter and for an item in
\* flight.
C15_Witness ==
    /\ lastOp.op = "updateEstimates"
    /\ ticks > 106
    /\ DblLess(Zero, _fileProgress.progressPerSec)
    /\ DblLess(Zero, _sizeProgress.progressPerSec)
    /\ DblLess(_sizeProgress.progressPerSec, Decimal(1, 3))
    /\ SmoothingWeight(_sizeProgress) = SmoothingScale
    /\ \E i \in InFlight :
          /\ DblLess(Zero, i.progress.progressPerSec)
          /\ SmoothingWeight(i.progress) = SmoothingScale

\* C16: setProgressComplete(X) leaves _lastCompletedItem = X whatever it
\* held, every setProgressItem leaves it a default-constructed item, also
\* for another path than the one completed last, and no other operation
\* changes it; so after a report operation it holds an item exactly when
\* that operation was a completion.
C16_LastCompletedItem ==
    [][/\ lastOp'.op = "setProgressComplete" =>
             /\ _lastCompletedItem' = lastOp'.item
             /\ _lastCompletedItem' # EmptyItem
       /\ lastOp'.op = "setProgressItem" => _lastCompletedItem' = EmptyItem
       /\ lastOp'.op \notin {"setProgressComplete", "setProgressItem"} =>
             _lastCompletedItem' = _lastCompletedItem]_vars

\* C16 happens: completions were reported, and the last call, a
\* setProgressItem for a path none of them was for, left the marker empty.
C16_Witness ==
    /\ lastOp.op = "setProgressItem"
    /\ doneItems # {}
    /\ lastOp.item.file \notin doneItems
    /\ _lastCompletedItem = EmptyItem

\* what C17 says of one estimator, p before a tick and q after it
TickRampsBelow(p, q) ==
    LET w == SmoothingWeight(p)
    IN  /\ DblLess(w, SmoothingScale)
        /\ DblLess(w, SmoothingWeight(q))
        /\ q.initialSmoothing = DblMul(p.initialSmoothing, SmoothingDecay)
        /\ p.initialSmoothing = One =>
              /\ w = Zero
              /\ q.progressPerSec = Decimal(p.completed - p.prevCompleted, 0)
        /\ q.prevCompleted = q.completed
        /\ q.completed = p.completed

\* C17 as stated: every update uses the weight w = 0.9 * (1 - ramp) and
\* multiplies the ramp by 0.7: 0 <= w < 0.9 on every tick, w grows from
\* every tick to the next, the first tick of an estimator (ramp 1, w = 0)
\* leaves the first delta as the rate, and after every tick
\* previous-completed equals completed.
C17_SmoothingRampBelow ==
    [][lastOp'.op = "updateEstimates" =>
          /\ TickRampsBelow(_fileProgress, _fileProgress')
          /\ TickRampsBelow(_sizeProgress, _sizeProgress')
          /\ \A k \in DOMAIN _currentItems :
                TickRampsBelow(_currentItems[k].progress,
                               _currentItems'[k].progress)]_vars

\* what C17 amended says of one estimator, p before a tick and q after
\* it: the weight is at most 0.9 and does not shrink; it is below 0.9 and
\* grows as long as the ramp is 2^-52 or more, and it is 0.9 once the
\* double 1.0 - ramp is 1.0
TickRamps(p, q) ==
    LET w == SmoothingWeight(p)
        after == SmoothingWeight(q)
    IN  /\ DblLeq(w, SmoothingScale)
        /\ DblLeq(w, after)
        /\ DblLeq(PowerOfTwo(-52), p.initialSmoothing) =>
              /\ DblLess(w, SmoothingScale)
              /\ DblLess(w, after)
        /\ DblSub(One, p.initialSmoothing) = One => w = SmoothingScale
        /\ q.initialSmoothing = DblMul(p.initialSmoothing, SmoothingDecay)
        /\ p.initialSmoothing = One =>
              /\ w = Zero
              /\ q.progressPerSec = Decimal(p.completed - p.prevCompleted, 0)
        /\ q.prevCompleted = q.completed
        /\ q.completed = p.completed

\* C17 amended: every update uses the weight w = 0.9 * (1 - ramp) and
\* multiplies the ramp by 0.7: 0 <= w <= 0.9 and w never shrinks; w is
\* below 0.9 and grows from tick to tick while the ramp is 2^-52 or more
\* (the first 102 ticks), and w is 0.9 once the ramp is so small that the
\* double 1.0 - ramp is 1.0 (from the 106th tick); the first tick of an
\* estimator (ramp 1, w = 0) leaves the first delta as the rate, and after
\* every tick previous-completed equals completed; for both run-level
\* estimators and the estimator of every in-flight item.
C17_SmoothingRamp ==
    [][lastOp'.op = "updateEstimates" =>
          /\ TickRamps(_fileProgress, _fileProgress')
          /\ TickRamps(_sizeProgress, _sizeProgress')
          /\ \A k \in DOMAIN _currentItems :
                TickRamps(_currentItems[k].progress,
                          _currentItems'[k].progress)]_vars

\* C17 happens: after 106 ticks the ramp of the byte counter, 0.7^106, is
\* above 0 and so small that the weight of the next tick is 0.9, while
\* the rate that the first tick took from the first delta of 2 has
\* decayed without reaching 0.
C17_Witness ==
    /\ lastOp.op = "updateEstimates"
    /\ ticks = 106
    /\ DblLess(Zero, _sizeProgress.initialSmoothing)
    /\ DblLess(_sizeProgress.initialSmoothing, Decimal(1, 16))
    /\ DblSub(One, _sizeProgress.initialSmoothing) = One
    /\ SmoothingWeight(_sizeProgress) = SmoothingScale
    /\ DblLess(Zero, _sizeProgress.progressPerSec)
    /\ _sizeProgress.prevCompleted = 2

\* C19: in every reachable state each smoothed rate is at least 0 and at
\* most its peak.
C19_RateWithinPeak ==
    /\ DblLeq(Zero, _fileProgress.progressPerSec)
    /\ DblLeq(_fileProgress.progressPerSec, _maxFilesPerSecond)
    /\ DblLeq(Zero, _sizeProgress.progressPerSec)
    /\ DblLeq(_sizeProgress.progressPerSec, _maxBytesPerSecond)

\* C19 happens: the second tick raised the file rate to a new peak of
\* 0.73 while the byte rate fell from its peak 2.0 to 0.54.
C19_Witness ==
    /\ ticks = 2
    /\ _fileProgress.progressPerSec = Decimal(73, 2)
    /\ _maxFilesPerSecond = Decimal(73, 2)
    /\ Around(_sizeProgress.progressPerSec, 54, 2)
    /\ _maxBytesPerSecond = Decimal(2, 0)

\* C20: updateEstimates changes no total, no completed counter, not the
\* set of in-flight items, their items, totals or completed bytes, not
\* _totalSizeOfCompletedJobs and not _lastCompletedItem; it advances both
\* run-level estimators and the estimator of every in-flight item: each
\* has its ramp multiplied by 0.7 and previous-completed set to completed.
C20_TickFrame ==
    [][lastOp'.op = "updateEstimates" =>
          /\ _fileProgress'.total = _fileProgress.total
          /\ _sizeProgress'.total = _sizeProgress.total
          /\ _fileProgress'.completed = _fileProgress.completed
          /\ _sizeProgress'.completed = _sizeProgress.completed
          /\ _totalSizeOfCompletedJobs' = _totalSizeOfCompletedJobs
          /\ _lastCompletedItem' = _lastCompletedItem
          /\ DOMAIN _currentItems' = DOMAIN _currentItems
          /\ \A k \in DOMAIN _currentItems :
                /\ _currentItems'[k].item = _currentItems[k].item
                /\ _currentItems'[k].progress.total = _currentItems[k].progress.total
                /\ _currentItems'[k].progress.completed =
                      _currentItems[k].progress.completed
          /\ \A p \in {<<_fileProgress, _fileProgress'>>,
                       <<_sizeProgress, _sizeProgress'>>}
                   \cup {<<_currentItems[k].progress, _currentItems'[k].progress>> :
                            k \in DOMAIN _currentItems} :
                /\ p[2].initialSmoothing
                      = DblMul(p[1].initialSmoothing, SmoothingDecay)
                /\ p[2].prevCompleted = p[1].completed]_vars

\* C20 happens: a tick came with an item in flight ahead of its
\* previous-completed and with a last completed item recorded; the item's
\* estimator has its first rate, and the record is still there.
C20_Witness ==
    /\ lastOp.op = "updateEstimates"
    /\ _lastCompletedItem # EmptyItem
    /\ completedFiles > 0
    /\ \E i \in InFlight :
          /\ i.progress.progressPerSec = One
          /\ i.progress.prevCompleted = 1
          /\ DblLess(i.progress.initialSmoothing, One)

\* C18: in a totalProgress call with a byte total above 0 and both peaks
\* above 0, nearMaxFps, slowTransfer and beOptimistic, their product, lie
\* in [0, 1]; nearMaxFps is 0 for a file rate up to 0.5 * peak and 1 from
\* 0.8 * peak, slowTransfer is 1 for a byte rate up to 0.01 * peak and 0
\* from 0.1 * peak; the eta returned lies between the eta of the byte
\* counter and the optimistic eta and is the former when beOptimistic = 0.
C18_BlendWithinEtas ==
    (/\ queried.op = "totalProgress"
     /\ totalSize > 0
     /\ _maxFilesPerSecond # Zero
     /\ _maxBytesPerSecond # Zero) =>
        LET fps == _fileProgress.progressPerSec
            trans == _sizeProgress.progressPerSec
            eta == queried.result.estimatedEta
            near == queried.nearMaxFps
            slow == queried.slowTransfer
            be == queried.beOptimistic
        IN  /\ DblLeq(Zero, near) /\ DblLeq(near, One)
            /\ DblLeq(Zero, slow) /\ DblLeq(slow, One)
            /\ DblLeq(Zero, be) /\ DblLeq(be, One)
            /\ be = DblMul(near, slow)
            /\ DblLeq(fps, DblMul(fpsL, _maxFilesPerSecond))
                  => near = Zero
            /\ DblLeq(DblMul(fpsU, _maxFilesPerSecond), fps)
                  => near = One
            /\ DblLeq(trans, DblMul(transL, _maxBytesPerSecond))
                  => slow = One
            /\ DblLeq(DblMul(transU, _maxBytesPerSecond), trans)
                  => slow = Zero
            /\ \E sizeEta \in queried.sizeEta :
               \E optimistic \in queried.optimisticEta :
                  \/ BigLeq(sizeEta, eta) /\ BigLeq(eta, optimistic)
                  \/ BigLeq(optimistic, eta) /\ BigLeq(eta, sizeEta)
            /\ be = Zero => eta \in queried.sizeEta

\* C21: fileProgress for a path that is not in flight returns the unknown
\* estimate, bandwidth 0 and eta 0, and leaves the in-flight set as it
\* was, so currentFile is what it was before the call.
C21_FileProgressOfAbsentPath ==
    [][(/\ queried'.op = "fileProgress"
        /\ queried'.item.file \notin DOMAIN _currentItems) =>
          /\ queried'.result.estimatedBandwidth = Zero
          /\ queried'.result.estimatedEta = BigOf(0)
          /\ queried'.item.file \notin DOMAIN _currentItems'
          /\ _currentItems' = _currentItems
          /\ completedFiles' + Cardinality(DOMAIN _currentItems')
                = completedFiles + Cardinality(DOMAIN _currentItems)]_vars

\* C21 happens: after a tick, while another item is in flight with a rate
\* above 0, fileProgress was asked for a path that is not in flight; the
\* answer is the unknown estimate and one item is in flight as before.
C21_Witness ==
    /\ queried.op = "fileProgress"
    /\ queried.item.file \notin DOMAIN _currentItems
    /\ ticks >= 1
    /\ \E i \in InFlight : DblLess(Zero, i.progress.progressPerSec)
    /\ queried.result.estimatedBandwidth = Zero
    /\ queried.result.estimatedEta = BigOf(0)
    /\ currentFile = completedFiles + 1

\* the setters of a share
ShareSetters == {"setPermissions", "setPublicUpload", "setPassword", "setExpireDate"}

\* C22: the cached state of a share changes only when the reply
\* shareJobFinished to the corresponding job arrives: a setter leaves
\* _permissions, _passwordSet and _expireDate as they were, and so does an
\* ocsError reply to any job, one of deleteShare too, which emits exactly
\* serverError(statusCode, message) and no success signal.
C22_CachedStateChangesOnReply ==
    [][/\ lastOp'.op \in ShareSetters =>
             /\ _permissions' = _permissions
             /\ _passwordSet' = _passwordSet
             /\ _expireDate' = _expireDate
             /\ emitted' = <<>>
       /\ lastOp'.op = "ocsError" =>
             /\ _permissions' = _permissions
             /\ _passwordSet' = _passwordSet
             /\ _expireDate' = _expireDate
             /\ emitted' = <<[signal |-> "serverError",
                              statusCode |-> lastOp'.statusCode,
                              message |-> lastOp'.message]>>
       /\ _permissions' # _permissions =>
             /\ lastOp'.op = "shareJobFinished"
             /\ lastOp'.job.verb \in {"setPermissions", "setPublicUpload"}
       /\ _passwordSet' # _passwordSet =>
             /\ lastOp'.op = "shareJobFinished"
             /\ lastOp'.job.verb = "setPassword"
       /\ _expireDate' # _expireDate =>
             /\ lastOp'.op = "shareJobFinished"
             /\ lastOp'.job.verb = "setExpireDate"]_vars

\* C22 happens: a reply had set an expiry date; then the server answered a
\* setPermissions job for other permissions than the cached ones with an
\* error while another job is pending: the permissions are the ones the
\* share was constructed with, and the one signal is serverError.
C22_Witness ==
    /\ lastOp.op = "ocsError"
    /\ lastOp.job.verb = "setPermissions"
    /\ lastOp.job.value # _permissions
    /\ _permissions = {"PermissionRead"}
    /\ _expireDate # NullDate
    /\ Len(jobs) = 1
    /\ Len(emitted) = 1
    /\ emitted[1].signal = "serverError"
    /\ emitted[1].statusCode = 403

====
